---------------------------- MODULE Spec2Model ----------------------------
(***************************************************************************)
(* NodeModal (src/features/modals/NodeModal/index.tsx): the dialog that    *)
(* shows one selected node of the JSON document, lets the user edit it as  *)
(* text and writes the edit back into the document text.                   *)
(*                                                                         *)
(* Texts are sequences of one-character strings.  Offsets into a text are  *)
(* 0-based as in JavaScript: the character at offset o of t is t[o + 1].   *)
(* JSON values are records tagged by t; a number is m * 10^x with m free   *)
(* of trailing zeros, so that equal numbers are equal records.             *)
(*                                                                         *)
(* An intermediate result is handed on as an operator's argument rather    *)
(* than named in a LET, so each step of an algorithm is one definition.    *)
(***************************************************************************)
EXTENDS Integers, Sequences, FiniteSets, TLC

(***************************************************************************)
(* Characters                                                              *)
(***************************************************************************)
QUOTE == "\""

BSLASH == "\\"

NL == "\n"

JsonWs == {" ", "\t", "\n", "\r"}

Digits == {"0", "1", "2", "3", "4", "5", "6", "7", "8", "9"}

DigitVal(c) ==
  CASE c = "0" -> 0 [] c = "1" -> 1 [] c = "2" -> 2 [] c = "3" -> 3
    [] c = "4" -> 4 [] c = "5" -> 5 [] c = "6" -> 6 [] c = "7" -> 7
    [] c = "8" -> 8 [] c = "9" -> 9

DigitChar(d) ==
  CASE d = 0 -> "0" [] d = 1 -> "1" [] d = 2 -> "2" [] d = 3 -> "3"
    [] d = 4 -> "4" [] d = 5 -> "5" [] d = 6 -> "6" [] d = 7 -> "7"
    [] d = 8 -> "8" [] d = 9 -> "9"

\* t.substring(a, b): offsets a (inclusive) to b (exclusive)
Sub(t, a, b) == SubSeq(t, a + 1, b)

\* t.charAt(o), "" past the end
At(t, o) == IF o >= 0 /\ o < Len(t) THEN t[o + 1] ELSE ""

TextTrue == <<"t", "r", "u", "e">>

TextFalse == <<"f", "a", "l", "s", "e">>

TextNull == <<"n", "u", "l", "l">>

TextUndefined == <<"u", "n", "d", "e", "f", "i", "n", "e", "d">>

(***************************************************************************)
(* JSON values                                                             *)
(***************************************************************************)
JNull == [t |-> "null"]

JUndef == [t |-> "undef"]

JBool(b) == [t |-> "bool", b |-> b]

JStr(s) == [t |-> "str", s |-> s]

JArr(el) == [t |-> "arr", el |-> el]

\* kv: the properties in insertion order, each [k |-> key text, v |-> value]
JObj(kv) == [t |-> "obj", kv |-> kv]

RECURSIVE NormNum(_, _)
NormNum(m, x) ==
  IF m = 0 THEN [t |-> "num", m |-> 0, x |-> 0]
  ELSE IF m % 10 = 0 THEN NormNum(m \div 10, x + 1)
  ELSE [t |-> "num", m |-> m, x |-> x]

JInt(n) == NormNum(n, 0)

\* the digits of ds read as a decimal integer
RECURSIVE DigitsVal(_)
DigitsVal(ds) ==
  IF ds = <<>> THEN 0
  ELSE 10 * DigitsVal(SubSeq(ds, 1, Len(ds) - 1)) + DigitVal(ds[Len(ds)])

\* the decimal digits of n >= 0
RECURSIVE NatDigits(_)
NatDigits(n) ==
  IF n < 10 THEN <<DigitChar(n)>>
  ELSE Append(NatDigits(n \div 10), DigitChar(n % 10))

RECURSIVE Zeros(_)
Zeros(n) == IF n <= 0 THEN <<>> ELSE <<"0">> \o Zeros(n - 1)

RECURSIVE Spaces(_)
Spaces(n) == IF n <= 0 THEN <<>> ELSE <<" ">> \o Spaces(n - 1)

Signed(neg, m) == IF neg THEN 0 - m ELSE m

\* the number of zeros that end ds
RECURSIVE TrailingZeros(_)
TrailingZeros(ds) ==
  IF ds # <<>> /\ ds[Len(ds)] = "0"
    THEN 1 + TrailingZeros(SubSeq(ds, 1, Len(ds) - 1))
    ELSE 0

\* the digits ds, z of them zeros at the end, times 10^x
NumOfDigits(neg, ds, z, x) ==
  NormNum(Signed(neg, DigitsVal(SubSeq(ds, 1, Len(ds) - z))),
          IF z = Len(ds) THEN 0 ELSE x + z)

\* the value of the literal  sign int [. frac] [e exp]
NumOf(neg, int, frac, exp) ==
  NumOfDigits(neg, int \o frac, TrailingZeros(int \o frac), exp - Len(frac))

(***************************************************************************)
(* The JSON grammar (ECMA-404), read into a tree whose nodes carry their   *)
(* offset and length in the text, as jsonc-parser's parseTree does.        *)
(* JSON.parse (lines 62, 86) accepts exactly the texts of this grammar.    *)
(* A parse result is [ok, node, next]: next is the offset after the value. *)
(***************************************************************************)
Fail == [ok |-> FALSE]

RECURSIVE SkipWs(_, _)
SkipWs(t, i) == IF At(t, i) \in JsonWs THEN SkipWs(t, i + 1) ELSE i

\* the offset after the longest run of digits that starts at i
RECURSIVE DigitRun(_, _)
DigitRun(t, i) == IF At(t, i) \in Digits THEN DigitRun(t, i + 1) ELSE i

\* does text w occur in t at offset i
StartsWith(t, i, w) == i + Len(w) <= Len(t) /\ Sub(t, i, i + Len(w)) = w

\* the character an escape sequence \c stands for (\b and \uXXXX do not
\* occur in the texts of this model)
Unescape(c) ==
  CASE c = QUOTE -> QUOTE [] c = BSLASH -> BSLASH [] c = "/" -> "/"
    [] c = "n" -> "\n" [] c = "t" -> "\t" [] c = "r" -> "\r" [] c = "f" -> "\f"

Escapable == {QUOTE, BSLASH, "/", "n", "t", "r", "f"}

ControlChars == {"\n", "\t", "\r", "\f"}

\* a string literal from the offset i after its opening quote; acc is the
\* characters read so far: [ok, s, next]
RECURSIVE ScanString(_, _, _)
ScanString(t, i, acc) ==
  IF At(t, i) = "" \/ At(t, i) \in ControlChars THEN Fail
  ELSE IF At(t, i) = QUOTE THEN [ok |-> TRUE, s |-> acc, next |-> i + 1]
  ELSE IF At(t, i) = BSLASH
    THEN IF At(t, i + 1) \in Escapable
           THEN ScanString(t, i + 2, Append(acc, Unescape(At(t, i + 1))))
           ELSE Fail
  ELSE ScanString(t, i + 1, Append(acc, At(t, i)))

\* a number literal: -? (0 | [1-9][0-9]*) (. [0-9]+)? ([eE] [+-]? [0-9]+)?
\* e0..e1 are the exponent's digits, e1 the offset after the literal
NumberEnd(t, neg, int, hasF, frac, hasE, eneg, e0, e1) ==
  IF int = <<>> \/ (Len(int) > 1 /\ int[1] = "0") THEN Fail
  ELSE IF hasF /\ frac = <<>> THEN Fail
  ELSE IF hasE /\ e1 = e0 THEN Fail
  ELSE [ok |-> TRUE, next |-> e1,
        v |-> NumOf(neg, int, frac,
                    IF hasE THEN Signed(eneg, DigitsVal(Sub(t, e0, e1))) ELSE 0)]

NumberExpDigits(t, neg, int, hasF, frac, eneg, e0) ==
  NumberEnd(t, neg, int, hasF, frac, TRUE, eneg, e0, DigitRun(t, e0))

\* f1: the offset after the fraction
NumberExp(t, neg, int, hasF, frac, f1) ==
  IF At(t, f1) \in {"e", "E"}
    THEN NumberExpDigits(t, neg, int, hasF, frac, At(t, f1 + 1) = "-",
                         IF At(t, f1 + 1) \in {"+", "-"} THEN f1 + 2 ELSE f1 + 1)
    ELSE NumberEnd(t, neg, int, hasF, frac, FALSE, FALSE, f1, f1)

NumberFracDigits(t, neg, int, f0, f1) ==
  NumberExp(t, neg, int, TRUE, Sub(t, f0, f1), f1)

\* i0..i1 are the integer part's digits
NumberFrac(t, neg, i0, i1) ==
  IF At(t, i1) = "."
    THEN NumberFracDigits(t, neg, Sub(t, i0, i1), i1 + 1, DigitRun(t, i1 + 1))
    ELSE NumberExp(t, neg, Sub(t, i0, i1), FALSE, <<>>, i1)

NumberInt(t, neg, i0) == NumberFrac(t, neg, i0, DigitRun(t, i0))

ScanNumber(t, i) ==
  NumberInt(t, At(t, i) = "-", IF At(t, i) = "-" THEN i + 1 ELSE i)

Leaf(type, off, next, val) ==
  [ok |-> TRUE, next |-> next,
   node |-> [type |-> type, off |-> off, len |-> next - off, val |-> val]]

StringLeaf(i, r) == IF r.ok THEN Leaf("string", i, r.next, JStr(r.s)) ELSE Fail

NumberLeaf(i, r) == IF r.ok THEN Leaf("number", i, r.next, r.v) ELSE Fail

ObjectNode(start, next, props) ==
  [ok |-> TRUE, next |-> next,
   node |-> [type |-> "object", off |-> start, len |-> next - start,
             props |-> props]]

ArrayNode(start, next, items) ==
  [ok |-> TRUE, next |-> next,
   node |-> [type |-> "array", off |-> start, len |-> next - start,
             items |-> items]]

RECURSIVE ParseValue(_, _)
RECURSIVE ParseElements(_, _, _, _)
RECURSIVE ElementParsed(_, _, _, _)
RECURSIVE ElementNext(_, _, _, _)
RECURSIVE ParseMembers(_, _, _, _)
RECURSIVE MemberKey(_, _, _, _, _)
RECURSIVE MemberColon(_, _, _, _, _, _)
RECURSIVE MemberParsed(_, _, _, _, _, _)
RECURSIVE MemberNext(_, _, _, _)

\* start is the offset of "{", j that of the first token after it
ObjectOpen(t, start, j) ==
  IF At(t, j) = "}" THEN ObjectNode(start, j + 1, <<>>)
  ELSE ParseMembers(t, start, j, <<>>)

\* start is the offset of "[", j that of the first token after it
ArrayOpen(t, start, j) ==
  IF At(t, j) = "]" THEN ArrayNode(start, j + 1, <<>>)
  ELSE ParseElements(t, start, j, <<>>)

\* i is the offset of the value's first character
ParseValue(t, i) ==
  IF At(t, i) = "{" THEN ObjectOpen(t, i, SkipWs(t, i + 1))
  ELSE IF At(t, i) = "[" THEN ArrayOpen(t, i, SkipWs(t, i + 1))
  ELSE IF At(t, i) = QUOTE THEN StringLeaf(i, ScanString(t, i + 1, <<>>))
  ELSE IF At(t, i) = "-" \/ At(t, i) \in Digits THEN NumberLeaf(i, ScanNumber(t, i))
  ELSE IF StartsWith(t, i, TextTrue) THEN Leaf("boolean", i, i + 4, JBool(TRUE))
  ELSE IF StartsWith(t, i, TextFalse) THEN Leaf("boolean", i, i + 5, JBool(FALSE))
  ELSE IF StartsWith(t, i, TextNull) THEN Leaf("null", i, i + 4, JNull)
  ELSE Fail

\* start: offset of "["; i: offset of the next element; acc: the nodes so far
ParseElements(t, start, i, acc) == ElementParsed(t, start, acc, ParseValue(t, i))

ElementParsed(t, start, acc, r) ==
  IF ~r.ok THEN Fail
  ELSE ElementNext(t, start, Append(acc, r.node), SkipWs(t, r.next))

\* j: the offset of the token after an element
ElementNext(t, start, items, j) ==
  IF At(t, j) = "," THEN ParseElements(t, start, SkipWs(t, j + 1), items)
  ELSE IF At(t, j) = "]" THEN ArrayNode(start, j + 1, items)
  ELSE Fail

\* start: offset of "{"; i: offset of the next property; acc: those so far.
\* A property is [key, off, len, node]: off is the key's offset, len runs to
\* the end of the value, node is the value's node.
ParseMembers(t, start, i, acc) ==
  IF At(t, i) # QUOTE THEN Fail
  ELSE MemberKey(t, start, i, acc, ScanString(t, i + 1, <<>>))

MemberKey(t, start, i, acc, k) ==
  IF ~k.ok THEN Fail
  ELSE MemberColon(t, start, i, acc, k.s, SkipWs(t, k.next))

\* c: the offset of the token after the key
MemberColon(t, start, i, acc, key, c) ==
  IF At(t, c) # ":" THEN Fail
  ELSE MemberParsed(t, start, i, acc, key, ParseValue(t, SkipWs(t, c + 1)))

MemberParsed(t, start, i, acc, key, r) ==
  IF ~r.ok THEN Fail
  ELSE MemberNext(t, start,
                  Append(acc, [key |-> key, off |-> i, len |-> r.next - i,
                               node |-> r.node]),
                  SkipWs(t, r.next))

\* j: the offset of the token after a property
MemberNext(t, start, props, j) ==
  IF At(t, j) = "," THEN ParseMembers(t, start, SkipWs(t, j + 1), props)
  ELSE IF At(t, j) = "}" THEN ObjectNode(start, j + 1, props)
  ELSE Fail

WholeText(t, r) == IF r.ok /\ SkipWs(t, r.next) = Len(t) THEN r ELSE Fail

\* the whole text is one value between optional white space
ParseText(t) == WholeText(t, ParseValue(t, SkipWs(t, 0)))

(***************************************************************************)
(* JSON.parse: the value of a tree.  In an object a repeated key keeps the *)
(* place of its first occurrence and takes the value of its last one; the  *)
(* keys that are array indices are listed first, in ascending order.       *)
(***************************************************************************)
\* the index of key k in kv, 0 when kv has no such key
KeyIndex(kv, k) ==
  IF \E i \in 1..Len(kv) : kv[i].k = k
    THEN CHOOSE i \in 1..Len(kv) : kv[i].k = k /\ \A j \in 1..(i - 1) : kv[j].k # k
    ELSE 0

HasKey(o, k) == KeyIndex(o.kv, k) # 0

\* o[k] for an object o that has the key
Field(o, k) == o.kv[KeyIndex(o.kv, k)].v

\* digit texts of one length in numeric order
RECURSIVE DigitsBefore(_, _)
DigitsBefore(a, b) ==
  /\ a # <<>>
  /\ \/ DigitVal(a[1]) < DigitVal(b[1])
     \/ a[1] = b[1] /\ DigitsBefore(Tail(a), Tail(b))

\* the largest array index, 2^32 - 2
MaxIndexText == <<"4", "2", "9", "4", "9", "6", "7", "2", "9", "4">>

\* a key that is an array index: the canonical decimal text of an integer
\* of 0..2^32-2
IsArrayIndex(k) ==
  /\ k # <<>>
  /\ \A i \in 1..Len(k) : k[i] \in Digits
  /\ k[1] = "0" => Len(k) = 1
  /\ \/ Len(k) < Len(MaxIndexText)
     \/ Len(k) = Len(MaxIndexText) /\ (k = MaxIndexText \/ DigitsBefore(k, MaxIndexText))

\* the order in which an object lists its own keys: the array indices in
\* ascending order, then the other keys in the order they were created
IndexBefore(a, b) ==
  /\ IsArrayIndex(a)
  /\ IsArrayIndex(b) => \/ Len(a) < Len(b)
                        \/ Len(a) = Len(b) /\ DigitsBefore(a, b)

\* the number of keys of kv listed before a new key k
RECURSIVE KeysBefore(_, _)
KeysBefore(kv, k) ==
  IF kv = <<>> \/ IndexBefore(k, kv[1].k) THEN 0
  ELSE 1 + KeysBefore(Tail(kv), k)

InsertKey(kv, n, k, v) ==
  SubSeq(kv, 1, n) \o <<[k |-> k, v |-> v]>> \o SubSeq(kv, n + 1, Len(kv))

SetAt(kv, i, k, v) ==
  IF i # 0 THEN [kv EXCEPT ![i] = [k |-> k, v |-> v]]
  ELSE InsertKey(kv, KeysBefore(kv, k), k, v)

\* obj[k] = v
SetKey(kv, k, v) == SetAt(kv, KeyIndex(kv, k), k, v)

RECURSIVE ToValue(_)
RECURSIVE PropsToKv(_, _)
RECURSIVE ItemsToEl(_)

ToValue(node) ==
  IF node.type = "object" THEN JObj(PropsToKv(node.props, <<>>))
  ELSE IF node.type = "array" THEN JArr(ItemsToEl(node.items))
  ELSE node.val

PropsToKv(props, acc) ==
  IF props = <<>> THEN acc
  ELSE PropsToKv(Tail(props), SetKey(acc, props[1].key, ToValue(props[1].node)))

ItemsToEl(items) ==
  IF items = <<>> THEN <<>>
  ELSE <<ToValue(items[1])>> \o ItemsToEl(Tail(items))

ParsedValue(r) == IF r.ok THEN [ok |-> TRUE, v |-> ToValue(r.node)] ELSE Fail

\* JSON.parse(t): [ok |-> FALSE] stands for the SyntaxError it throws
JSONparse(t) == ParsedValue(ParseText(t))

(***************************************************************************)
(* JSON.stringify                                                          *)
(***************************************************************************)
\* the exponent part e+N or e-N
ExponentText(e) ==
  IF e < 0 THEN <<"e", "-">> \o NatDigits(0 - e) ELSE <<"e", "+">> \o NatDigits(e)

\* Number::toString (ECMA-262, radix 10) of the digits s, k of them, with
\* the decimal point after the n-th
NumberForm(s, k, n) ==
  IF k <= n /\ n <= 21 THEN s \o Zeros(n - k)
  ELSE IF 0 < n /\ n <= 21 THEN SubSeq(s, 1, n) \o <<".">> \o SubSeq(s, n + 1, k)
  ELSE IF -6 < n /\ n <= 0 THEN <<"0", ".">> \o Zeros(0 - n) \o s
  ELSE IF k = 1 THEN s \o ExponentText(n - 1)
  ELSE <<s[1], ".">> \o Tail(s) \o ExponentText(n - 1)

NumberBody(s, x) == NumberForm(s, Len(s), Len(s) + x)

NumberToString(v) ==
  IF v.m = 0 THEN <<"0">>
  ELSE IF v.m < 0 THEN <<"-">> \o NumberBody(NatDigits(0 - v.m), v.x)
  ELSE NumberBody(NatDigits(v.m), v.x)

EscapeChar(c) ==
  CASE c = QUOTE -> <<BSLASH, QUOTE>>
    [] c = BSLASH -> <<BSLASH, BSLASH>>
    [] c = "\n" -> <<BSLASH, "n">>
    [] c = "\t" -> <<BSLASH, "t">>
    [] c = "\r" -> <<BSLASH, "r">>
    [] c = "\f" -> <<BSLASH, "f">>
    [] OTHER -> <<c>>

RECURSIVE EscapeAll(_)
EscapeAll(s) == IF s = <<>> THEN <<>> ELSE EscapeChar(s[1]) \o EscapeAll(Tail(s))

QuoteString(s) == <<QUOTE>> \o EscapeAll(s) \o <<QUOTE>>

\* the properties JSON.stringify writes: those whose value is not undefined
RECURSIVE Defined(_)
Defined(kv) ==
  IF kv = <<>> THEN <<>>
  ELSE IF kv[1].v.t = "undef" THEN Defined(Tail(kv))
  ELSE <<kv[1]>> \o Defined(Tail(kv))

\* the line break and indentation before an item at depth d
Indent(gap, d) == IF gap > 0 THEN <<NL>> \o Spaces(gap * d) ELSE <<>>

RECURSIVE Stringify(_, _, _)
RECURSIVE StringifyObj(_, _, _)
RECURSIVE StringifyKv(_, _, _, _)
RECURSIVE StringifyEl(_, _, _, _)

\* JSON.stringify(v, null, gap) at nesting depth d; gap = 0 is the compact form
Stringify(v, gap, d) ==
  CASE v.t = "null" -> TextNull
    [] v.t = "bool" -> IF v.b THEN TextTrue ELSE TextFalse
    [] v.t = "num" -> NumberToString(v)
    [] v.t = "str" -> QuoteString(v.s)
    [] v.t = "arr" ->
         IF v.el = <<>> THEN <<"[", "]">>
         ELSE <<"[">> \o StringifyEl(v.el, gap, d + 1, TRUE) \o Indent(gap, d) \o <<"]">>
    [] v.t = "obj" -> StringifyObj(Defined(v.kv), gap, d)

StringifyObj(kv, gap, d) ==
  IF kv = <<>> THEN <<"{", "}">>
  ELSE <<"{">> \o StringifyKv(kv, gap, d + 1, TRUE) \o Indent(gap, d) \o <<"}">>

StringifyEl(el, gap, d, first) ==
  IF el = <<>> THEN <<>>
  ELSE (IF first THEN <<>> ELSE <<",">>)
       \o Indent(gap, d)
       \o (IF el[1].t = "undef" THEN TextNull ELSE Stringify(el[1], gap, d))
       \o StringifyEl(Tail(el), gap, d, FALSE)

StringifyKv(kv, gap, d, first) ==
  IF kv = <<>> THEN <<>>
  ELSE (IF first THEN <<>> ELSE <<",">>)
       \o Indent(gap, d)
       \o QuoteString(kv[1].k) \o <<":">> \o (IF gap > 0 THEN <<" ">> ELSE <<>>)
       \o Stringify(kv[1].v, gap, d)
       \o StringifyKv(Tail(kv), gap, d, FALSE)

\* JSON.stringify(v)
JSONstringify(v) == Stringify(v, 0, 0)

(***************************************************************************)
(* Paths.  A segment is [k |-> key text] (a string) or [i |-> index] (a    *)
(* number), so that "0" and 0 are different segments.                      *)
(***************************************************************************)
Key(k) == [k |-> k]

Idx(i) == [i |-> i]

IsKey(seg) == "k" \in DOMAIN seg

\* is text s the canonical decimal form of an array index
IsIndexText(s) ==
  /\ s # <<>>
  /\ \A j \in 1..Len(s) : s[j] \in Digits
  /\ (Len(s) = 1 \/ s[1] # "0")

\* the array index a property name stands for, -1 when it is none
IndexOf(s) == IF IsIndexText(s) THEN DigitsVal(s) ELSE -1

LengthText == <<"l", "e", "n", "g", "t", "h">>

\* cur[name], n being the index that name stands for.  The names of
\* inherited members (constructor, toString, ...) are not keys of this model.
MemberAt(cur, name, n) ==
  CASE cur.t = "obj" -> IF HasKey(cur, name) THEN Field(cur, name) ELSE JUndef
    [] cur.t = "arr" -> IF n >= 0 /\ n < Len(cur.el) THEN cur.el[n + 1]
                        ELSE IF name = LengthText THEN JInt(Len(cur.el))
                        ELSE JUndef
    [] cur.t = "str" -> IF n >= 0 /\ n < Len(cur.s) THEN JStr(<<cur.s[n + 1]>>)
                        ELSE IF name = LengthText THEN JInt(Len(cur.s))
                        ELSE JUndef
    [] OTHER -> JUndef

\* cur[seg] of JavaScript, for cur neither null nor undefined: a number
\* used as a property name is its decimal text
Member(cur, seg) ==
  IF IsKey(seg) THEN MemberAt(cur, seg.k, IndexOf(seg.k))
  ELSE MemberAt(cur, NatDigits(seg.i), seg.i)

\* lines 87-94
RECURSIVE getAtPath(_, _)
getAtPath(obj, p) ==
  IF p = <<>> THEN obj
  ELSE IF obj.t \in {"null", "undef"} THEN JUndef
  ELSE getAtPath(Member(obj, p[1]), Tail(p))

\* line 97: v && typeof v === "object" && !Array.isArray(v)
isObject(v) == v.t = "obj"

\* { ...a, ...b }: a's properties, then b's written over them in b's order
RECURSIVE Spread(_, _)
Spread(akv, bkv) ==
  IF bkv = <<>> THEN akv
  ELSE Spread(SetKey(akv, bkv[1].k, bkv[1].v), Tail(bkv))

(***************************************************************************)
(* lines 60-76: the edit buffer read as a value                            *)
(***************************************************************************)
TrimWs == {" ", "\t", "\n", "\r", "\f"}

RECURSIVE TrimStart(_)
TrimStart(s) == IF s # <<>> /\ s[1] \in TrimWs THEN TrimStart(Tail(s)) ELSE s

RECURSIVE TrimEnd(_)
TrimEnd(s) ==
  IF s # <<>> /\ s[Len(s)] \in TrimWs THEN TrimEnd(SubSeq(s, 1, Len(s) - 1)) ELSE s

\* String.prototype.trim
Trim(s) == TrimEnd(TrimStart(s))

\* line 66: /^[-]?[0-9]+(\.[0-9]+)?$/ on s, as [matches, neg, int, frac];
\* i0..i1 are the digits before the point, f0..f1 those after it
PatternEnd(s, neg, i0, i1, hasF, f0, f1) ==
  [matches |-> i1 > i0 /\ (hasF => f1 > f0) /\ f1 = Len(s),
   neg |-> neg, int |-> Sub(s, i0, i1), frac |-> Sub(s, f0, f1)]

PatternFrac(s, neg, i0, i1) ==
  IF At(s, i1) = "." THEN PatternEnd(s, neg, i0, i1, TRUE, i1 + 1, DigitRun(s, i1 + 1))
  ELSE PatternEnd(s, neg, i0, i1, FALSE, i1, i1)

PatternInt(s, neg, i0) == PatternFrac(s, neg, i0, DigitRun(s, i0))

NumberPattern(s) == PatternInt(s, At(s, 0) = "-", IF At(s, 0) = "-" THEN 1 ELSE 0)

\* lines 66-75
Classify(trimmed, num) ==
  IF num.matches THEN NumOf(num.neg, num.int, num.frac, 0)
  ELSE IF trimmed = TextTrue \/ trimmed = TextFalse THEN JBool(trimmed = TextTrue)
  ELSE IF trimmed = TextNull THEN JNull
  ELSE JStr(trimmed)

CoerceTrimmed(trimmed) == Classify(trimmed, NumberPattern(trimmed))

\* Coerce without the trim of line 65: C5_EditParser must not hold of it
CoerceUntrimmed(text) == CoerceTrimmed(text)

\* lines 64-75: the catch branch
Coerce(text) == CoerceTrimmed(Trim(text))

ParsedOr(r, text) == IF r.ok THEN r.v ELSE Coerce(text)

\* lines 60-76
EditParser(text) == ParsedOr(JSONparse(text), text)

(***************************************************************************)
(* lines 84-105: the value to write                                        *)
(***************************************************************************)
\* MergeInto with the spread of line 100 turned round, the existing values
\* written over the edit's: C3_MergeResolver must not hold of it
MergeKeepingExisting(existingValue, parsed) ==
  IF isObject(existingValue) /\ isObject(parsed)
    THEN JObj(Spread(parsed.kv, existingValue.kv))
    ELSE parsed

\* MergeInto without lines 99-101: C4_ChildrenSurvive must not hold of it
ReplaceAlways(existingValue, parsed) == parsed

\* lines 99-101
MergeInto(existingValue, parsed) ==
  IF isObject(existingValue) /\ isObject(parsed)
    THEN JObj(Spread(existingValue.kv, parsed.kv))
    ELSE parsed

\* MergeWith with the catch of lines 102-105 writing null:
\* C11_NeverRaises must not hold of it
MergeWithNull(originalParsed, path, parsed) ==
  IF ~originalParsed.ok THEN JNull
  ELSE MergeInto(getAtPath(originalParsed.v, path), parsed)

\* lines 85-105: originalParsed is JSON.parse(originalJson) or its failure
MergeWith(originalParsed, path, parsed) ==
  IF ~originalParsed.ok THEN parsed
  ELSE MergeInto(getAtPath(originalParsed.v, path), parsed)

MergeResolver(originalJson, path, parsed) ==
  MergeWith(JSONparse(originalJson), path, parsed)

(***************************************************************************)
(* jsonc-parser (lines 9, 107-111).  An edit is [offset, length, content]. *)
(* The document texts of this model are JSON texts or blank, and their     *)
(* line breaks are "\n": comments, scan errors and the recovery of         *)
(* parseTree from a syntax error are not modelled.                         *)
(***************************************************************************)
Edit(offset, length, content) ==
  [offset |-> offset, length |-> length, content |-> content]

\* applyEdit(text, edit)
applyEdit(text, e) ==
  Sub(text, 0, e.offset) \o e.content \o Sub(text, e.offset + e.length, Len(text))

\* r: the grammar's reading of the text
TreeOf(text, r) ==
  CASE r.ok -> r
    [] SkipWs(text, 0) = Len(text) -> Fail

\* parseTree(text): the root node; none for a text holding no value
parseTree(text) == TreeOf(text, ParseText(text))

\* the first property of props named k, 0 when there is none
FirstProp(props, k) ==
  IF \E i \in 1..Len(props) : props[i].key = k
    THEN CHOOSE i \in 1..Len(props) :
           props[i].key = k /\ \A j \in 1..(i - 1) : props[j].key # k
    ELSE 0

RECURSIVE findNodeAtLocation(_, _)
RECURSIVE FindProp(_, _, _)

\* findNodeAtLocation(root, path), root a node
findNodeAtLocation(node, path) ==
  IF path = <<>> THEN [ok |-> TRUE, node |-> node]
  ELSE IF IsKey(path[1]) THEN
    IF node.type # "object" THEN Fail
    ELSE FindProp(node, path, FirstProp(node.props, path[1].k))
  ELSE IF node.type # "array" \/ path[1].i < 0 \/ path[1].i >= Len(node.items)
    THEN Fail
  ELSE findNodeAtLocation(node.items[path[1].i + 1], Tail(path))

FindProp(node, path, i) ==
  IF i = 0 THEN Fail ELSE findNodeAtLocation(node.props[i].node, Tail(path))

\* findNodeAtLocation(root, path), root possibly undefined
FindFromRoot(root, path) ==
  IF root.ok THEN findNodeAtLocation(root.node, path) ELSE Fail

isEOL(text, o) == At(text, o) \in {"\n", "\r"}

\* the offset of the start of the line that holds offset o
RECURSIVE LineStart(_, _)
LineStart(text, o) ==
  IF o > 0 /\ ~isEOL(text, o - 1) THEN LineStart(text, o - 1) ELSE o

\* the offset of the end of the line that holds offset o
RECURSIVE LineEnd(_, _)
LineEnd(text, o) ==
  IF o < Len(text) /\ ~isEOL(text, o) THEN LineEnd(text, o + 1) ELSE o

RECURSIVE SkipTrivia(_, _)
SkipTrivia(text, i) ==
  IF At(text, i) \in {" ", "\t", "\n", "\r"} THEN SkipTrivia(text, i + 1) ELSE i

Token(kind, off, len) == [kind |-> kind, off |-> off, len |-> len]

\* the token that starts at offset o
TokenAt(text, o) ==
  CASE At(text, o) = "" -> Token("EOF", o, 0)
    [] At(text, o) = "{" -> Token("OpenBrace", o, 1)
    [] At(text, o) = "}" -> Token("CloseBrace", o, 1)
    [] At(text, o) = "[" -> Token("OpenBracket", o, 1)
    [] At(text, o) = "]" -> Token("CloseBracket", o, 1)
    [] At(text, o) = ":" -> Token("Colon", o, 1)
    [] At(text, o) = "," -> Token("Comma", o, 1)
    [] At(text, o) = QUOTE ->
         Token("StringLiteral", o, ScanString(text, o + 1, <<>>).next - o)
    [] At(text, o) = "-" \/ At(text, o) \in Digits ->
         Token("NumericLiteral", o, ScanNumber(text, o).next - o)
    [] At(text, o) = "t" -> Token("TrueKeyword", o, 4)
    [] At(text, o) = "f" -> Token("FalseKeyword", o, 5)
    [] At(text, o) = "n" -> Token("NullKeyword", o, 4)

\* the scanner's next token at or after offset i, white space skipped
ScanToken(text, i) == TokenAt(text, SkipTrivia(text, i))

\* computeIndentLevel(content, options)
RECURSIVE LeadingWidth(_, _, _)
LeadingWidth(content, i, tab) ==
  IF At(content, i) = " " THEN 1 + LeadingWidth(content, i + 1, tab)
  ELSE IF At(content, i) = "\t" THEN tab + LeadingWidth(content, i + 1, tab)
  ELSE 0

computeIndentLevel(content, tab) == LeadingWidth(content, 0, tab) \div tab

\* format's loop body: the white space to stand between tokens first and
\* second (nl: a line break and the indentation; else sp spaces) and the
\* indentation level after it
FormatGap(first, second, level) ==
  IF second.kind = "EOF" THEN
    [nl |-> FALSE, sp |-> 0,
     level |-> IF first.kind \in {"OpenBrace", "OpenBracket"} THEN level + 1 ELSE level]
  ELSE IF second.kind = "CloseBrace" THEN
    IF first.kind # "OpenBrace"
      THEN [nl |-> TRUE, sp |-> 0, level |-> level - 1]
      ELSE [nl |-> FALSE, sp |-> 0, level |-> level]
  ELSE IF second.kind = "CloseBracket" THEN
    IF first.kind # "OpenBracket"
      THEN [nl |-> TRUE, sp |-> 0, level |-> level - 1]
      ELSE [nl |-> FALSE, sp |-> 0, level |-> level]
  ELSE IF first.kind \in {"OpenBrace", "OpenBracket"} THEN
    [nl |-> TRUE, sp |-> 0, level |-> level + 1]
  ELSE IF first.kind = "Comma" THEN [nl |-> TRUE, sp |-> 0, level |-> level]
  ELSE IF first.kind = "Colon" THEN [nl |-> FALSE, sp |-> 1, level |-> level]
  ELSE [nl |-> FALSE, sp |-> 0, level |-> level]

\* ctx: [doc, text, start, rangeStart, rangeEnd, tab, initial]: the document,
\* the lines being formatted and their offset in it, the range, the tab size
\* and the indentation level of the first line
GapText(ctx, gap) ==
  IF gap.nl THEN <<NL>> \o Spaces(ctx.tab * (ctx.initial + gap.level))
  ELSE Spaces(gap.sp)

\* addEdit: an edit is kept when it touches the range and changes the text
GapEdit(ctx, from, to, content) ==
  IF from < ctx.rangeEnd /\ to > ctx.rangeStart /\ Sub(ctx.doc, from, to) # content
    THEN <<Edit(from, to - from, content)>>
    ELSE <<>>

RECURSIVE FormatFrom(_, _, _)
RECURSIVE FormatPair(_, _, _, _)
RECURSIVE FormatStep(_, _, _, _)

FormatFrom(ctx, first, level) ==
  IF first.kind = "EOF" THEN <<>>
  ELSE FormatPair(ctx, first, ScanToken(ctx.text, first.off + first.len), level)

FormatPair(ctx, first, second, level) ==
  FormatStep(ctx, first, second, FormatGap(first, second, level))

FormatStep(ctx, first, second, gap) ==
  GapEdit(ctx, first.off + first.len + ctx.start, second.off + ctx.start,
          GapText(ctx, gap))
  \o FormatFrom(ctx, second, gap.level)

\* the indentation of the first token, then the gaps
FormatHead(ctx, first) ==
  (IF first.kind # "EOF"
     THEN GapEdit(ctx, ctx.start, first.off + ctx.start, Spaces(ctx.tab * ctx.initial))
     ELSE <<>>)
  \o FormatFrom(ctx, first, 0)

FormatText(ctx) == FormatHead(ctx, ScanToken(ctx.text, 0))

FormatLines(doc, rangeStart, rangeEnd, tab, formatText, formatTextStart) ==
  FormatText([doc |-> doc, text |-> formatText, start |-> formatTextStart,
              rangeStart |-> rangeStart, rangeEnd |-> rangeEnd, tab |-> tab,
              initial |-> computeIndentLevel(formatText, tab)])

FormatBetween(doc, rangeStart, rangeEnd, tab, formatTextStart, endOffset) ==
  FormatLines(doc, rangeStart, rangeEnd, tab,
              Sub(doc, formatTextStart, endOffset), formatTextStart)

\* format(documentText, range, {insertSpaces: true, tabSize: tab,
\* keepLines: false}): the edits, in the order of their offsets
format(documentText, rangeStart, rangeLength, tab) ==
  FormatBetween(documentText, rangeStart, rangeStart + rangeLength, tab,
                LineStart(documentText, rangeStart),
                LineEnd(documentText, rangeStart + rangeLength))

Max(a, b) == IF a > b THEN a ELSE b

Min(a, b) == IF a < b THEN a ELSE b

\* withFormatting's loop: the formatting edits applied from the last to the
\* first, acc = [text, begin, end] following the changed region
RECURSIVE FoldFormat(_, _, _)
FoldFormat(edits, i, acc) ==
  IF i = 0 THEN acc
  ELSE FoldFormat(edits, i - 1,
         [text  |-> applyEdit(acc.text, edits[i]),
          begin |-> Min(acc.begin, edits[i].offset),
          end   |-> Max(acc.end, edits[i].offset + edits[i].length)
                    + Len(edits[i].content) - edits[i].length])

FoldAll(edits, acc) == FoldFormat(edits, Len(edits), acc)

\* the whole change as one edit of text
FormatApplied(text, done) ==
  <<Edit(done.begin, Len(text) - (Len(done.text) - done.end) - done.begin,
         Sub(done.text, done.begin, done.end))>>

FormatRange(text, newText, begin, end, tab) ==
  FormatApplied(text, FoldAll(format(newText, begin, end - begin, tab),
                              [text |-> newText, begin |-> begin, end |-> end]))

\* an insertion or a removal is formatted with the whole of its lines
FormatNew(text, edit, newText, tab) ==
  IF edit.length = 0 \/ Len(edit.content) = 0
    THEN FormatRange(text, newText, LineStart(newText, edit.offset),
                     LineEnd(newText, edit.offset + Len(edit.content)), tab)
    ELSE FormatRange(text, newText, edit.offset, edit.offset + Len(edit.content), tab)

\* withFormatting(text, edit, options)
withFormatting(text, edit, tab) == FormatNew(text, edit, applyEdit(text, edit), tab)

\* { [lastSegment]: value } or [value]
Wrap(lastSegment, value) ==
  IF IsKey(lastSegment) THEN JObj(<<[k |-> lastSegment.k, v |-> value]>>)
  ELSE JArr(<<value>>)

RECURSIVE Ascend(_, _, _)
RECURSIVE AscendParent(_, _, _, _, _)

\* setProperty's loop, path not empty: up from the path to the deepest node
\* that exists, the value wrapped in the levels that are missing
Ascend(root, path, value) ==
  AscendParent(root, path[Len(path)], SubSeq(path, 1, Len(path) - 1), value,
               FindFromRoot(root, SubSeq(path, 1, Len(path) - 1)))

AscendParent(root, lastSegment, rest, value, parent) ==
  IF parent.ok
    THEN [parent |-> parent, lastSegment |-> lastSegment, value |-> value]
  ELSE IF rest = <<>>
    THEN [parent |-> Fail, lastSegment |-> lastSegment,
          value |-> Wrap(lastSegment, value)]
  ELSE Ascend(root, rest, Wrap(lastSegment, value))

Planned(edit) == [ok |-> TRUE, edit |-> edit]

\* no parent: the root is replaced; an empty document is written from 0
RootEdit(root, json) ==
  IF root.ok THEN Planned(Edit(root.node.off, root.node.len, json))
  ELSE Planned(Edit(0, 0, json))

\* a property of an object: existing is the node of the property's value
PropertyEdit(parent, seg, json, existing, n) ==
  IF existing.ok THEN Planned(Edit(existing.node.off, existing.node.len, json))
  ELSE IF n > 0
    THEN Planned(Edit(parent.props[n].off + parent.props[n].len, 0,
                      <<",">> \o QuoteString(seg.k) \o <<":", " ">> \o json))
  ELSE Planned(Edit(parent.off + 1, 0, QuoteString(seg.k) \o <<":", " ">> \o json))

\* an element of an array of n elements
ElementEdit(parent, i, json, n) ==
  IF i = -1 THEN
    IF n = 0 THEN Planned(Edit(parent.off + 1, 0, json))
    ELSE Planned(Edit(parent.items[n].off + parent.items[n].len, 0, <<",">> \o json))
  ELSE IF n > i THEN
    Planned(Edit(parent.items[i + 1].off, parent.items[i + 1].len, json))
  ELSE IF n = 0 \/ i = 0 THEN
    Planned(Edit(parent.off + 1, 0, IF n = 0 THEN json ELSE json \o <<",">>))
  ELSE
    Planned(Edit(parent.items[Min(i, n)].off + parent.items[Min(i, n)].len, 0,
                 <<",">> \o json))

\* a parent that is neither an object addressed by a string nor an array
\* addressed by a number: setProperty throws
ChildEdit(parent, seg, json) ==
  IF parent.type = "object" /\ IsKey(seg)
    THEN PropertyEdit(parent, seg, json, findNodeAtLocation(parent, <<seg>>),
                      Len(parent.props))
  ELSE IF parent.type = "array" /\ ~IsKey(seg)
    THEN ElementEdit(parent, seg.i, json, Len(parent.items))
  ELSE Fail

AscendedEdit(root, up) ==
  IF up.parent.ok THEN ChildEdit(up.parent.node, up.lastSegment, JSONstringify(up.value))
  ELSE RootEdit(root, JSONstringify(up.value))

\* setProperty(text, path, value, options) up to the formatting: the edit,
\* or [ok |-> FALSE] for a throw
PlanEdit(root, path, value) ==
  IF path = <<>> THEN RootEdit(root, JSONstringify(value))
  ELSE AscendedEdit(root, Ascend(root, path, value))

FormatPlan(text, plan, tab) ==
  IF plan.ok THEN [ok |-> TRUE, edits |-> withFormatting(text, plan.edit, tab)]
  ELSE Fail

\* modify(text, path, value, {formattingOptions: {insertSpaces: true,
\* tabSize: tab}}), value not undefined: [ok |-> TRUE, edits], or
\* [ok |-> FALSE] for a throw
modify(text, path, value, tab) ==
  FormatPlan(text, PlanEdit(parseTree(text), path, value), tab)

\* applyEdits(text, edits) for the one edit modify returns
applyEdits(text, edits) ==
  IF edits = <<>> THEN text ELSE applyEdit(text, edits[1])

(***************************************************************************)
(* The graph store (useGraph, lines 6, 34, 119-122): the node set rebuilt  *)
(* from a document text.  A node is [id, path, text]; text is its rows     *)
(* [hasKey, key, value, type], one per structural child: keyed for the     *)
(* properties of an object, unkeyed for the elements of an array and for a *)
(* scalar, with the value only on scalar rows.  The nodes of one set are   *)
(* numbered in document order, and that number is the node's id.           *)
(***************************************************************************)
NoNode == [none |-> TRUE]

\* nodeData?.id
NodeId(n) == IF n = NoNode THEN [undefined |-> TRUE] ELSE [id |-> n.id]

TypeTag(node) ==
  IF node.type \in {"object", "array"} THEN node.type ELSE "scalar"

Row(hasKey, key, node) ==
  [hasKey |-> hasKey, key |-> key, type |-> TypeTag(node),
   value |-> IF TypeTag(node) = "scalar" THEN node.val ELSE JUndef]

Placed(path, rows) == [path |-> path, text |-> rows]

RECURSIVE NodesOf(_, _)
RECURSIVE NodesOfProps(_, _)
RECURSIVE NodesOfItems(_, _, _)

NodesOf(node, path) ==
  IF node.type = "object" THEN
    <<Placed(path, [i \in 1..Len(node.props) |->
                      Row(TRUE, node.props[i].key, node.props[i].node)])>>
    \o NodesOfProps(node.props, path)
  ELSE IF node.type = "array" THEN
    <<Placed(path, [i \in 1..Len(node.items) |-> Row(FALSE, <<>>, node.items[i])])>>
    \o NodesOfItems(node.items, path, 0)
  ELSE <<Placed(path, <<Row(FALSE, <<>>, node)>>)>>

NodesOfProps(props, path) ==
  IF props = <<>> THEN <<>>
  ELSE (IF TypeTag(props[1].node) = "scalar" THEN <<>>
        ELSE NodesOf(props[1].node, Append(path, Key(props[1].key))))
       \o NodesOfProps(Tail(props), path)

NodesOfItems(items, path, i) ==
  IF items = <<>> THEN <<>>
  ELSE NodesOf(items[1], Append(path, Idx(i))) \o NodesOfItems(Tail(items), path, i + 1)

Numbered(ns) ==
  [i \in 1..Len(ns) |-> [id |-> i, path |-> ns[i].path, text |-> ns[i].text]]

NodesOfTree(r) == IF r.ok THEN Numbered(NodesOf(r.node, <<>>)) ELSE <<>>

\* the rebuild that follows a replace of the document text
BuildNodes(text) == NodesOfTree(ParseText(text))

Range(f) == {f[i] : i \in DOMAIN f}

(***************************************************************************)
(* lines 13-24                                                             *)
(***************************************************************************)
\* `${value}`
TemplateText(v) ==
  CASE v.t = "str" -> v.s
    [] v.t = "undef" -> TextUndefined
    [] OTHER -> JSONstringify(v)

\* !row.key: an absent key and the empty key are both falsy
NoKey(row) == ~row.hasKey \/ row.key = <<>>

\* lines 18-22
RECURSIVE FoldRows(_, _)
FoldRows(rows, kv) ==
  IF rows = <<>> THEN kv
  ELSE FoldRows(Tail(rows),
         IF rows[1].type # "array" /\ rows[1].type # "object" /\ ~NoKey(rows[1])
           THEN SetKey(kv, rows[1].key, rows[1].value)
           ELSE kv)

normalizeNodeData(nodeRows) ==
  IF Len(nodeRows) = 0 THEN <<"{", "}">>
  ELSE IF Len(nodeRows) = 1 /\ NoKey(nodeRows[1]) THEN TemplateText(nodeRows[1].value)
  ELSE Stringify(JObj(FoldRows(nodeRows, <<>>)), 2, 0)

\* lines 27-31 and JSON.stringify(path) of line 120 read a path alike: a
\* string segment quoted, a number bare
SegmentText(seg) == IF IsKey(seg) THEN QuoteString(seg.k) ELSE NatDigits(seg.i)

RECURSIVE JoinSegments(_, _)
JoinSegments(path, sep) ==
  IF path = <<>> THEN <<>>
  ELSE IF Len(path) = 1 THEN SegmentText(path[1])
  ELSE SegmentText(path[1]) \o sep \o JoinSegments(Tail(path), sep)

\* JSON.stringify(path)
PathText(path) == <<"[">> \o JoinSegments(path, <<",">>) \o <<"]">>

\* lines 27-31
jsonPathToString(path) ==
  IF Len(path) = 0 THEN <<"$">>
  ELSE <<"$", "[">> \o JoinSegments(path, <<"]", "[">>) \o <<"]">>

(***************************************************************************)
(* Inputs: the document texts the json store may hold, and the texts the   *)
(* user may type.  The stores are the application's, not the dialog's: a   *)
(* session may start with a selection made in an earlier document, with a  *)
(* document that is not JSON, and with editor contents that differ.        *)
(***************************************************************************)
\* the successful rewrites of the document one behaviour may make
MaxSaves == 2

\* the longest text of TypedTexts
MaxLen == 3

\* {"u":{"n":"Al","a":1,"t":["x"]}}
DocUser ==
  <<"{", "\"", "u", "\"", ":", "{", "\"", "n", "\"", ":", "\"", "A", "l",
    "\"", ",", "\"", "a", "\"", ":", "1", ",", "\"", "t", "\"", ":", "[",
    "\"", "x", "\"", "]", "}", "}">>

\* {"u":5}
DocScalar ==
  <<"{", "\"", "u", "\"", ":", "5", "}">>

\* the empty text, which is not JSON
DocBlank ==
  <<>>

\* {"p":{"a":1,"b":2},"q":[1,2,3]}
DocPair ==
  <<"{", "\"", "p", "\"", ":", "{", "\"", "a", "\"", ":", "1", ",", "\"",
    "b", "\"", ":", "2", "}", ",", "\"", "q", "\"", ":", "[", "1", ",",
    "2", ",", "3", "]", "}">>

\* {"o":{"a":{"k":1},"b":2}}
DocNest ==
  <<"{", "\"", "o", "\"", ":", "{", "\"", "a", "\"", ":", "{", "\"", "k",
    "\"", ":", "1", "}", ",", "\"", "b", "\"", ":", "2", "}", "}">>

\* {\n  "u": {\n    "a": 1\n  },\n  "v": [null, 2]\n}
DocPretty ==
  <<"{", "\n", " ", " ", "\"", "u", "\"", ":", " ", "{", "\n", " ", " ",
    " ", " ", "\"", "a", "\"", ":", " ", "1", "\n", " ", " ", "}", ",",
    "\n", " ", " ", "\"", "v", "\"", ":", " ", "[", "n", "u", "l", "l",
    ",", " ", "2", "]", "\n", "}">>

\* {"a":{"x":1},"a":{"y":2}}
DocTwice ==
  <<"{", "\"", "a", "\"", ":", "{", "\"", "x", "\"", ":", "1", "}", ",",
    "\"", "a", "\"", ":", "{", "\"", "y", "\"", ":", "2", "}", "}">>

\* 5
TextFive ==
  <<"5">>

\* {"a":2}
TextAge ==
  <<"{", "\"", "a", "\"", ":", "2", "}">>

\* abc
TextWord ==
  <<"a", "b", "c">>

\* {"b":3,"c":4}
TextPair ==
  <<"{", "\"", "b", "\"", ":", "3", ",", "\"", "c", "\"", ":", "4", "}">>

\* {"x":1}
TextEx ==
  <<"{", "\"", "x", "\"", ":", "1", "}">>

\* {"a":{"j":2}}
TextNest ==
  <<"{", "\"", "a", "\"", ":", "{", "\"", "j", "\"", ":", "2", "}", "}">>

\* {"y":3}
TextWhy ==
  <<"{", "\"", "y", "\"", ":", "3", "}">>

\* [7]
TextList ==
  <<"[", "7", "]">>

\* 42
TextFortyTwo ==
  <<"4", "2">>

\* the document texts a session starts from
Docs == {DocUser, DocScalar, DocBlank}

\* the texts the user types into the text area
EditTexts == {TextFive, TextAge, TextWord}

\* every node of every starting document
KnownNodes == UNION {Range(BuildNodes(doc)) : doc \in Docs}

\* the documents and the typed texts of the saves checked one by one
SaveDocs == {DocUser, DocScalar, DocBlank, DocPair, DocNest, DocPretty, DocTwice}

SaveTexts ==
  {TextFive, TextAge, TextWord, TextPair, TextEx, TextNest, TextWhy, TextList,
   TextNull}

SavedNodes == UNION {Range(BuildNodes(doc)) : doc \in SaveDocs}

\* the characters of the short typed texts: digits, the signs of a number,
\* a quote, a space (white space of JSON and of trim) and a form feed (white
\* space of trim only)
TypedChars == {"0", "1", "-", ".", "e", QUOTE, " ", "\f"}

RECURSIVE TextsOfLen(_)
TextsOfLen(n) ==
  IF n = 0 THEN {<<>>}
  ELSE {Append(s, c) : s \in TextsOfLen(n - 1), c \in TypedChars}

Pads == {<<>>, <<" ">>, <<"\f">>}

Words == {TextTrue, TextFalse, TextNull, TextWord, TextFortyTwo}

\* every text of at most MaxLen characters, and the words with white space
\* before and after
TypedTexts ==
  UNION {TextsOfLen(n) : n \in 0..MaxLen}
  \cup {a \o w \o b : a \in Pads, w \in Words, b \in Pads}

\* {"v":[{"w":{"k":1}},[1],3]}
DocDeep ==
  <<"{", "\"", "v", "\"", ":", "[", "{", "\"", "w", "\"", ":", "{", "\"",
    "k", "\"", ":", "1", "}", "}", ",", "[", "1", "]", ",", "3", "]", "}">>

\* documents whose nodes' paths, taken to another of them, run into a null
\* (v[0] of DocPretty), a number (v[1] of DocPretty, u of DocScalar), a
\* missing key (v of DocUser), an index past the end (v[2] of DocPretty)
\* and a text that is not JSON
StaleDocs == {DocDeep, DocPretty, DocUser, DocScalar, DocBlank}

StaleNodes == UNION {Range(BuildNodes(doc)) : doc \in StaleDocs}

MaxRows == 3

\* rows as the graph store may hand them: unkeyed (a scalar, an element of an
\* array), keyed by a name, by the empty name, by an array index and by a
\* name that occurs twice; typed scalar, array and object
RowPool ==
  {[hasKey |-> FALSE, key |-> <<>>, type |-> "scalar", value |-> JInt(5)],
   [hasKey |-> FALSE, key |-> <<>>, type |-> "scalar", value |-> JStr(<<"x">>)],
   [hasKey |-> FALSE, key |-> <<>>, type |-> "array", value |-> JUndef],
   [hasKey |-> TRUE, key |-> <<"a">>, type |-> "scalar", value |-> JInt(1)],
   [hasKey |-> TRUE, key |-> <<"a">>, type |-> "scalar", value |-> JInt(2)],
   [hasKey |-> TRUE, key |-> <<"b">>, type |-> "scalar", value |-> JStr(<<"s">>)],
   [hasKey |-> TRUE, key |-> <<"b">>, type |-> "object", value |-> JUndef],
   [hasKey |-> TRUE, key |-> <<>>, type |-> "scalar", value |-> JInt(1)],
   [hasKey |-> TRUE, key |-> <<"2">>, type |-> "scalar", value |-> JBool(TRUE)],
   [hasKey |-> TRUE, key |-> <<"o">>, type |-> "object", value |-> JUndef],
   [hasKey |-> TRUE, key |-> <<"t">>, type |-> "array", value |-> JInt(9)]}

RowTexts == UNION {[1..n -> RowPool] : n \in 0..MaxRows}

RowNodes == {[id |-> 1, path |-> <<>>, text |-> rows] : rows \in RowTexts}

\* {"s":["5","x"],"k":{"c":"1"}}
DocText ==
  <<"{", "\"", "s", "\"", ":", "[", "\"", "5", "\"", ",", "\"", "x", "\"",
    "]", ",", "\"", "k", "\"", ":", "{", "\"", "c", "\"", ":", "\"", "1",
    "\"", "}", "}">>

\* parseable documents, edited and saved with the text left as the
\* start-edit wrote it
EchoDocs == {DocUser, DocScalar, DocPair, DocNest, DocPretty, DocDeep, DocText}

(***************************************************************************)
(* State.  opened is the dialog's prop; selectedNode and nodes are the     *)
(* graph store's; json is the json store's text (the document); contents   *)
(* and hasChanges are the file store's (the text editor); editing and      *)
(* editedText are the component's state (lines 38-39).  The rest observes  *)
(* a step: event names the handler that ran, before holds what it started  *)
(* from, parsed and valueToWrite are handleSave's locals of those names,   *)
(* diag is "warn" when line 134 ran, and saves counts the rewrites.  pc is  *)
(* the position of handleSave: "saving" from its read of the document      *)
(* (line 78) to its return, "idle" otherwise; jsonRead is its local        *)
(* originalJson.                                                           *)
(***************************************************************************)
VARIABLES opened, selectedNode, nodes, json, contents, hasChanges, editing,
          editedText, parsed, valueToWrite, diag, event, before, saves,
          pc, jsonRead

vars ==
  <<opened, selectedNode, nodes, json, contents, hasChanges, editing,
    editedText, parsed, valueToWrite, diag, event, before, saves,
    pc, jsonRead>>

\* Idle with handlers entered at any time: C13_OneSaveInFlight must not hold
\* of it
IdleOrNot == TRUE

\* a handler is entered only when none is running: handleSave (lines 57-136)
\* is a synchronous function, it awaits nothing between its read of line 78
\* and its return
Idle == pc = "idle"

\* line 108
tabSize == 2

\* what a handler starts from
Seen ==
  [opened |-> opened, editing |-> editing, editedText |-> editedText,
   json |-> json, contents |-> contents, hasChanges |-> hasChanges,
   selectedNode |-> selectedNode, nodes |-> nodes]

\* useEffect with the dependency nodeData?.id left out of line 45:
\* C6_ForcedReset must not hold of it
useEffectOfOpened(newOpened, newNode, e, t) ==
  IF newOpened # opened
    THEN editing' = FALSE /\ editedText' = <<>>
    ELSE editing' = e /\ editedText' = t

\* lines 41-45: the effect runs after a render in which opened or the
\* selected node's id changed; e and t are what the handler itself set
useEffect(newOpened, newNode, e, t) ==
  IF newOpened # opened \/ NodeId(newNode) # NodeId(selectedNode)
    THEN editing' = FALSE /\ editedText' = <<>>
    ELSE editing' = e /\ editedText' = t

\* a handler other than handleSave: it writes to no store
Quiet(name) ==
  /\ event' = name
  /\ before' = Seen
  /\ parsed' = JUndef
  /\ valueToWrite' = JUndef
  /\ diag' = "none"
  /\ UNCHANGED <<nodes, json, contents, hasChanges, saves, pc, jsonRead>>

\* the parent shows the dialog (line 139)
Open ==
  /\ Idle
  /\ ~opened
  /\ opened' = TRUE
  /\ selectedNode' = selectedNode
  /\ useEffect(TRUE, selectedNode, editing, editedText)
  /\ Quiet("open")

\* lines 139, 162: the parent hides the dialog
onClose ==
  /\ Idle
  /\ opened
  /\ opened' = FALSE
  /\ selectedNode' = selectedNode
  /\ useEffect(FALSE, selectedNode, editing, editedText)
  /\ Quiet("close")

\* the graph view selects another node of the current node set (line 34)
setSelectedNode(n) ==
  /\ Idle
  /\ n # selectedNode
  /\ selectedNode' = n
  /\ opened' = opened
  /\ useEffect(opened, n, editing, editedText)
  /\ Quiet("select")

\* lines 47-50; the Edit button is shown when not editing (lines 147-151)
handleEdit ==
  /\ Idle
  /\ opened
  /\ ~editing
  /\ editedText' = normalizeNodeData(IF selectedNode = NoNode THEN <<>>
                                      ELSE selectedNode.text)
  /\ editing' = TRUE
  /\ UNCHANGED <<opened, selectedNode>>
  /\ Quiet("edit")

\* onChange with the text area shown at all times: C14_BufferLifetime must
\* not hold of it
onChangeShown(value) ==
  /\ Idle
  /\ opened
  /\ editedText' = value
  /\ UNCHANGED <<opened, selectedNode, editing>>
  /\ Quiet("change")

\* line 181; the text area is shown when editing (lines 176-183)
onChange(value) ==
  /\ Idle
  /\ opened
  /\ editing
  /\ editedText' = value
  /\ UNCHANGED <<opened, selectedNode, editing>>
  /\ Quiet("change")

\* handleCancel without line 54: C8_CancelDiscards must not hold of it
handleCancelKeepingText ==
  /\ Idle
  /\ opened
  /\ editing
  /\ editing' = FALSE
  /\ editedText' = editedText
  /\ UNCHANGED <<opened, selectedNode>>
  /\ event' = "cancel"
  /\ before' = Seen
  /\ parsed' = JUndef
  /\ valueToWrite' = JUndef
  /\ diag' = "none"
  /\ UNCHANGED <<nodes, json, contents, hasChanges, saves, pc, jsonRead>>

\* lines 52-55; the Cancel button is shown when editing (lines 152-161)
handleCancel ==
  /\ Idle
  /\ opened
  /\ editing
  /\ editing' = FALSE
  /\ editedText' = <<>>
  /\ UNCHANGED <<opened, selectedNode>>
  /\ Quiet("cancel")

\* line 120: nodes.find(n => JSON.stringify(n.path) === JSON.stringify(path))
FindMatch(ns, path) ==
  IF \E i \in 1..Len(ns) : PathText(ns[i].path) = PathText(path)
    THEN ns[CHOOSE i \in 1..Len(ns) :
              /\ PathText(ns[i].path) = PathText(path)
              /\ \A j \in 1..(i - 1) : PathText(ns[j].path) # PathText(path)]
    ELSE NoNode

\* Unsaved with the catch of lines 130-135 leaving editing mode:
\* C1_ThrowAborts must not hold of it
UnsavedLeavingEditing(d, p, v) ==
  /\ UNCHANGED <<opened, selectedNode, nodes, json, contents, hasChanges, saves>>
  /\ editing' = FALSE
  /\ editedText' = <<>>
  /\ parsed' = p
  /\ valueToWrite' = v
  /\ diag' = d

\* handleSave returns with no store written: at line 58 (d = "none") or
\* from the catch of lines 130-135 (d = "warn")
Unsaved(d, p, v) ==
  /\ UNCHANGED <<opened, selectedNode, nodes, json, contents, hasChanges,
                 editing, editedText, saves>>
  /\ parsed' = p
  /\ valueToWrite' = v
  /\ diag' = d

\* SaveMatch without the setJson of line 113: C7_SaveSuccess must not hold
\* of it
SaveMatchUnwritten(p, v, newJson, newNodes, match) ==
  /\ UNCHANGED <<json, nodes, opened>>
  /\ contents' = newJson
  /\ hasChanges' = FALSE
  /\ selectedNode' = (IF match # NoNode THEN match ELSE selectedNode)
  /\ editing' = FALSE
  /\ editedText' = <<>>
  /\ parsed' = p
  /\ valueToWrite' = v
  /\ diag' = "none"
  /\ saves' = saves + 1

\* SaveMatch without the reselection of lines 118-126: C9_Reselect must not
\* hold of it
SaveMatchUnselected(p, v, newJson, newNodes, match) ==
  /\ json' = newJson
  /\ nodes' = newNodes
  /\ contents' = newJson
  /\ hasChanges' = FALSE
  /\ UNCHANGED <<selectedNode, opened>>
  /\ editing' = FALSE
  /\ editedText' = <<>>
  /\ parsed' = p
  /\ valueToWrite' = v
  /\ diag' = "none"
  /\ saves' = saves + 1

\* SaveMatch without the file store's update of line 115: C10_Lockstep must
\* not hold of it
SaveMatchUnmirrored(p, v, newJson, newNodes, match) ==
  /\ json' = newJson
  /\ nodes' = newNodes
  /\ UNCHANGED <<contents, hasChanges, opened>>
  /\ selectedNode' = (IF match # NoNode THEN match ELSE selectedNode)
  /\ editing' = FALSE
  /\ editedText' = <<>>
  /\ parsed' = p
  /\ valueToWrite' = v
  /\ diag' = "none"
  /\ saves' = saves + 1

\* lines 113-129: setJson and the rebuild of the graph it triggers, the
\* file store, the reselection, and the component's state
SaveMatch(p, v, newJson, newNodes, match) ==
  /\ json' = newJson
  /\ nodes' = newNodes
  /\ contents' = newJson
  /\ hasChanges' = FALSE
  /\ selectedNode' = (IF match # NoNode THEN match ELSE selectedNode)
  /\ opened' = opened
  /\ useEffect(opened, IF match # NoNode THEN match ELSE selectedNode, FALSE, <<>>)
  /\ parsed' = p
  /\ valueToWrite' = v
  /\ diag' = "none"
  /\ saves' = saves + 1

\* lines 119-120
SaveNodesOf(p, v, path, newJson, newNodes) ==
  SaveMatch(p, v, newJson, newNodes, FindMatch(newNodes, path))

\* line 113
SaveText(p, v, path, newJson) ==
  SaveNodesOf(p, v, path, newJson, BuildNodes(newJson))

\* line 111; a throw of modify goes to the catch of line 130
SaveEdits(p, v, originalJson, path, edits) ==
  IF edits.ok THEN SaveText(p, v, path, applyEdits(originalJson, edits.edits))
  ELSE Unsaved("warn", p, v)

\* lines 107-109
SaveValue(p, originalJson, path, v) ==
  SaveEdits(p, v, originalJson, path, modify(originalJson, path, v, tabSize))

\* lines 78-105
SaveParsed(p, originalJson, path) ==
  SaveValue(p, originalJson, path, MergeResolver(originalJson, path, p))

\* handleSave without the return of line 58: the read of nodeData.path
\* (line 79) throws into the catch of line 130.  C16_SaveUnselected must not
\* hold of it
handleSaveUnguarded ==
  /\ Idle
  /\ opened
  /\ editing
  /\ saves < MaxSaves
  /\ IF selectedNode = NoNode
       THEN /\ event' = "save"
            /\ before' = Seen
            /\ Unsaved("warn", JUndef, JUndef)
            /\ UNCHANGED <<pc, jsonRead>>
       ELSE /\ pc' = "saving"
            /\ jsonRead' = json
            /\ UNCHANGED <<opened, selectedNode, nodes, json, contents,
                           hasChanges, editing, editedText, parsed,
                           valueToWrite, diag, event, before, saves>>

\* lines 57-78: the Save button is shown when editing (lines 152-161); the
\* handler returns at line 58 or reads the document at line 78
handleSave ==
  /\ Idle
  /\ opened
  /\ editing
  /\ saves < MaxSaves
  /\ IF selectedNode = NoNode
       THEN /\ event' = "save"
            /\ before' = Seen
            /\ Unsaved("none", JUndef, JUndef)
            /\ UNCHANGED <<pc, jsonRead>>
       ELSE /\ pc' = "saving"
            /\ jsonRead' = json
            /\ UNCHANGED <<opened, selectedNode, nodes, json, contents,
                           hasChanges, editing, editedText, parsed,
                           valueToWrite, diag, event, before, saves>>

\* lines 79-136: handleSave from the document read to its return
handleSaveReturn ==
  /\ pc = "saving"
  /\ event' = "save"
  /\ before' = Seen
  /\ SaveParsed(EditParser(editedText), jsonRead, selectedNode.path)
  /\ pc' = "idle"
  /\ jsonRead' = <<>>

\* a closed dialog over any of the documents, the selection possibly made
\* in another of them, the editor's contents possibly not the document
Init ==
  /\ opened = FALSE
  /\ json \in Docs
  /\ nodes = BuildNodes(json)
  /\ selectedNode \in KnownNodes \cup {NoNode}
  /\ contents \in {json, DocBlank}
  /\ hasChanges \in BOOLEAN
  /\ editing = FALSE
  /\ editedText = <<>>
  /\ parsed = JUndef
  /\ valueToWrite = JUndef
  /\ diag = "none"
  /\ event = "init"
  /\ before = Seen
  /\ saves = 0
  /\ pc = "idle"
  /\ jsonRead = <<>>

Next ==
  \/ Open
  \/ onClose
  \/ \E n \in Range(nodes) : setSelectedNode(n)
  \/ handleEdit
  \/ \E value \in EditTexts : onChange(value)
  \/ handleCancel
  \/ handleSave
  \/ handleSaveReturn

Spec == Init /\ [][Next]_vars

\* the dialog open and in editing, a text typed, Save about to be pressed
Typed(docs, selections, texts) ==
  /\ opened = TRUE
  /\ json \in docs
  /\ nodes = BuildNodes(json)
  /\ selectedNode \in selections
  /\ contents = json
  /\ hasChanges = TRUE
  /\ editing = TRUE
  /\ editedText \in texts
  /\ parsed = JUndef
  /\ valueToWrite = JUndef
  /\ diag = "none"
  /\ event = "change"
  /\ before = Seen
  /\ saves = 0
  /\ pc = "idle"
  /\ jsonRead = <<>>

InitSave == Typed(SaveDocs, SavedNodes \cup {NoNode}, SaveTexts)

NextSave == handleSave \/ handleSaveReturn

\* one save from every document, selection and typed text of the inputs
SpecSave == InitSave /\ [][NextSave]_vars

InitParse == Typed({DocScalar}, {BuildNodes(DocScalar)[1]}, TypedTexts)

\* one save of every typed text, over the root of one document
SpecParse == InitParse /\ [][NextSave]_vars

InitStale == Typed(StaleDocs, StaleNodes, SaveTexts)

\* one save from every document of StaleDocs with the selection made in any
\* of them
SpecStale == InitStale /\ [][NextSave]_vars

\* the dialog open on a node of any rows, not editing
InitRows ==
  /\ opened = TRUE
  /\ json = DocScalar
  /\ nodes = BuildNodes(json)
  /\ selectedNode \in RowNodes \cup {NoNode}
  /\ contents = json
  /\ hasChanges = FALSE
  /\ editing = FALSE
  /\ editedText = <<>>
  /\ parsed = JUndef
  /\ valueToWrite = JUndef
  /\ diag = "none"
  /\ event = "init"
  /\ before = Seen
  /\ saves = 0
  /\ pc = "idle"
  /\ jsonRead = <<>>

\* the Edit button pressed on every node of RowNodes
SpecRows == InitRows /\ [][handleEdit]_vars

\* the dialog open on a node of the document's own node set, not editing
InitEcho ==
  /\ opened = TRUE
  /\ json \in EchoDocs
  /\ nodes = BuildNodes(json)
  /\ selectedNode \in Range(nodes)
  /\ contents = json
  /\ hasChanges = FALSE
  /\ editing = FALSE
  /\ editedText = <<>>
  /\ parsed = JUndef
  /\ valueToWrite = JUndef
  /\ diag = "none"
  /\ event = "init"
  /\ before = Seen
  /\ saves = 0
  /\ pc = "idle"
  /\ jsonRead = <<>>

NextEcho == handleEdit \/ handleSave \/ handleSaveReturn

\* Edit, then Save with nothing typed
SpecEcho == InitEcho /\ [][NextEcho]_vars

(***************************************************************************)
(* Properties.  They are stated over the state a handler left and the      *)
(* state it started from (before), in terms that do not go through the     *)
(* handler's own steps where the property is about those steps.            *)
(***************************************************************************)
\* the keys of an object value
Keys(o) == {o.kv[i].k : i \in 1..Len(o.kv)}

\* the value of v at path: a string segment names a key of an object, a
\* number segment an element of an array; [ok |-> FALSE] when there is none
RECURSIVE Resolve(_, _)
Resolve(v, path) ==
  IF path = <<>> THEN [ok |-> TRUE, v |-> v]
  ELSE IF IsKey(path[1]) THEN
    IF v.t = "obj" /\ path[1].k \in Keys(v)
      THEN Resolve(Field(v, path[1].k), Tail(path))
      ELSE [ok |-> FALSE]
  ELSE IF v.t = "arr" /\ path[1].i >= 0 /\ path[1].i < Len(v.el)
    THEN Resolve(v.el[path[1].i + 1], Tail(path))
  ELSE [ok |-> FALSE]

\* every path of value v
RECURSIVE PathsOf(_)
PathsOf(v) ==
  {<<>>} \cup
  (IF v.t = "obj"
     THEN UNION {{<<Key(k)>> \o q : q \in PathsOf(Field(v, k))} : k \in Keys(v)}
   ELSE IF v.t = "arr"
     THEN UNION {{<<Idx(i - 1)>> \o q : q \in PathsOf(v.el[i])} : i \in 1..Len(v.el)}
   ELSE {})

IsPrefix(p, q) == Len(p) <= Len(q) /\ SubSeq(q, 1, Len(p)) = p

\* q is neither p, a prefix of p nor an extension of p
Apart(p, q) == ~IsPrefix(p, q) /\ ~IsPrefix(q, p)

\* the last step was a save that found a node selected (it passed line 58)
SaveRan == event = "save" /\ before.selectedNode # NoNode

SavePath == before.selectedNode.path

\* the document the save read, as JSON.parse reads it
DocBefore == JSONparse(before.json)

DocAfter == JSONparse(json)

\* what the save had to write, and the edits of it: [ok |-> FALSE] when the
\* computing of the edits throws
PatchBefore ==
  modify(before.json, SavePath,
         MergeResolver(before.json, SavePath, EditParser(before.editedText)),
         tabSize)

\* the save left everything as it was and warned
Aborted ==
  /\ json = before.json
  /\ contents = before.contents
  /\ hasChanges = before.hasChanges
  /\ selectedNode = before.selectedNode
  /\ editing
  /\ editedText = before.editedText
  /\ diag = "warn"

\* C1 as stated, of the saves that found a node selected: if the document
\* text does not parse as JSON or the computing of the edits fails, the
\* document and the editor's contents are unchanged, the session is still
\* editing with the same buffer, and a warning was emitted.
C1_AbortsOnUnparseable ==
  (SaveRan /\ (~DocBefore.ok \/ ~PatchBefore.ok)) => Aborted

\* C1 amended: a save with a node selected aborts exactly when the
\* computing of the edits throws: then the document, the editor's contents
\* and the selection are unchanged, the session is still editing with the
\* same buffer and a warning was emitted; and a warning is emitted by no
\* other step.  A document that is not JSON does not by itself abort.
C1_ThrowAborts ==
  /\ (SaveRan /\ ~PatchBefore.ok) => Aborted
  /\ diag = "warn" => (SaveRan /\ ~PatchBefore.ok)

\* a save that aborted with a text in the buffer
C1_Witness ==
  /\ SaveRan
  /\ ~PatchBefore.ok
  /\ diag = "warn"
  /\ editing
  /\ editedText # <<>>
  /\ json = before.json

\* C2: for every document that parses, every path addressable in it and
\* every value written, the new document parses to a value that has the
\* written value at the path, and every path apart from it has the value
\* it had.
C2_RoundTrip ==
  (SaveRan /\ DocBefore.ok /\ Resolve(DocBefore.v, SavePath).ok) =>
    /\ diag = "none"
    /\ ~editing
    /\ DocAfter.ok
    /\ Resolve(DocAfter.v, SavePath) = [ok |-> TRUE, v |-> valueToWrite]
    /\ \A q \in PathsOf(DocBefore.v) :
         Apart(SavePath, q) => Resolve(DocAfter.v, q) = Resolve(DocBefore.v, q)

\* the existing value of C3: the one found at the path, undefined if none
ExistingBefore ==
  IF DocBefore.ok /\ Resolve(DocBefore.v, SavePath).ok
    THEN Resolve(DocBefore.v, SavePath).v
    ELSE JUndef

\* value v is existing with candidate's keys written over it, one level deep
MergedOf(v, existing, candidate) ==
  /\ v.t = "obj"
  /\ Keys(v) = Keys(existing) \cup Keys(candidate)
  /\ Len(v.kv) = Cardinality(Keys(v))
  /\ \A k \in Keys(candidate) : Field(v, k) = Field(candidate, k)
  /\ \A k \in Keys(existing) \ Keys(candidate) : Field(v, k) = Field(existing, k)

\* C3: when the existing value at the path and the candidate are both
\* objects, the value written has the keys of both, the candidate's value
\* for each of its keys and the existing value for the others; in every
\* other case it is the candidate.  {a:1,b:2} with {b:3,c:4} gives
\* {a:1,b:3,c:4}; [1,2,3] with {x:1} gives {x:1}.
C3_MergeResolver ==
  /\ SaveRan =>
       IF ExistingBefore.t = "obj" /\ parsed.t = "obj"
         THEN MergedOf(valueToWrite, ExistingBefore, parsed)
         ELSE valueToWrite = parsed
  /\ (SaveRan /\ before.json = DocPair /\ before.editedText = TextPair
        /\ SavePath = <<Key(<<"p">>)>>) =>
       valueToWrite = JObj(<<[k |-> <<"a">>, v |-> JInt(1)],
                             [k |-> <<"b">>, v |-> JInt(3)],
                             [k |-> <<"c">>, v |-> JInt(4)]>>)
  /\ (SaveRan /\ before.json = DocPair /\ before.editedText = TextEx
        /\ SavePath = <<Key(<<"q">>)>>) =>
       valueToWrite = JObj(<<[k |-> <<"x">>, v |-> JInt(1)]>>)
  /\ (SaveRan /\ before.json = DocNest /\ before.editedText = TextNest
        /\ SavePath = <<Key(<<"o">>)>>) =>
       valueToWrite = JObj(<<[k |-> <<"a">>,
                              v |-> JObj(<<[k |-> <<"j">>, v |-> JInt(2)]>>)],
                             [k |-> <<"b">>, v |-> JInt(2)]>>)

\* a save of {"b":3,"c":4} over {"a":1,"b":2}
C3_Witness ==
  /\ SaveRan
  /\ ExistingBefore = JObj(<<[k |-> <<"a">>, v |-> JInt(1)],
                             [k |-> <<"b">>, v |-> JInt(2)]>>)
  /\ parsed = JObj(<<[k |-> <<"b">>, v |-> JInt(3)],
                     [k |-> <<"c">>, v |-> JInt(4)]>>)
  /\ Keys(valueToWrite) = {<<"a">>, <<"b">>, <<"c">>}

\* the object at the path after the save
ObjectAfter == Resolve(DocAfter.v, SavePath)

\* C4: when the value at the selected node's path is an object and the
\* edit text parses to an object, a successful save leaves at the path an
\* object with every key of the existing one, and with the existing value
\* for every key that the edit text does not have.
C4_ChildrenSurvive ==
  (SaveRan /\ ExistingBefore.t = "obj" /\ parsed.t = "obj" /\ ~editing) =>
    /\ DocAfter.ok
    /\ ObjectAfter.ok
    /\ ObjectAfter.v.t = "obj"
    /\ \A k \in Keys(ExistingBefore) :
         /\ k \in Keys(ObjectAfter.v)
         /\ k \notin Keys(parsed) =>
              Field(ObjectAfter.v, k) = Field(ExistingBefore, k)

\* a save of {"a":2} over {"n":"Al","a":1,"t":["x"]}: the array under t,
\* which has no row, is still there
C4_Witness ==
  /\ SaveRan
  /\ ~editing
  /\ before.json = DocUser
  /\ before.editedText = TextAge
  /\ SavePath = <<Key(<<"u">>)>>
  /\ ObjectAfter.ok
  /\ Field(ObjectAfter.v, <<"t">>) = JArr(<<JStr(<<"x">>)>>)
  /\ Field(ObjectAfter.v, <<"a">>) = JInt(2)

\* s is digits only, and not empty
AllDigits(s) == s # <<>> /\ \A i \in 1..Len(s) : s[i] \in Digits

\* s is digits with an optional fractional part
IsUnsigned(s) ==
  \/ AllDigits(s)
  \/ \E i \in 2..(Len(s) - 1) :
       /\ s[i] = "."
       /\ AllDigits(SubSeq(s, 1, i - 1))
       /\ AllDigits(SubSeq(s, i + 1, Len(s)))

\* s is an optional minus sign and digits with an optional fractional part
IsDecimal(s) ==
  IF s # <<>> /\ s[1] = "-" THEN IsUnsigned(Tail(s)) ELSE IsUnsigned(s)

\* the number a text of IsDecimal stands for: its digits as an integer,
\* divided by ten for each digit after the point
DecimalOf(s) ==
  NormNum((IF s[1] = "-" THEN -1 ELSE 1)
            * DigitsVal(SelectSeq(s, LAMBDA c : c \in Digits)),
          IF \E i \in 1..Len(s) : s[i] = "."
            THEN (CHOOSE i \in 1..Len(s) : s[i] = ".") - Len(s)
            ELSE 0)

\* the white space String.prototype.trim removes, of the characters typed
IsSpace(c) == c \in {" ", "\t", "\n", "\r", "\f"}

\* t is s without the white space at its ends
IsTrimOf(t, s) ==
  \E a \in 0..Len(s) : \E b \in a..Len(s) :
    /\ t = SubSeq(s, a + 1, b)
    /\ \A i \in 1..a : IsSpace(s[i])
    /\ \A i \in (b + 1)..Len(s) : IsSpace(s[i])
    /\ (t # <<>> => ~IsSpace(t[1]) /\ ~IsSpace(t[Len(t)]))

\* the value C5 gives to text s that is not JSON, t being s trimmed
ClassOf(t) ==
  IF IsDecimal(t) THEN DecimalOf(t)
  ELSE IF t = TextTrue THEN JBool(TRUE)
  ELSE IF t = TextFalse THEN JBool(FALSE)
  ELSE IF t = TextNull THEN JNull
  ELSE JStr(t)

\* C5: for every text of the buffer the parse stage gives a value and no
\* error: the strict parse of the text if it is JSON; else, of the trimmed
\* text, a number for an optional minus sign and digits with an optional
\* fractional part, a boolean for true or false, null for null, and the
\* trimmed text as a string for anything else.  42 gives 42, true gives
\* true, null gives null, abc gives the string abc.
C5_EditParser ==
  /\ SaveRan =>
       /\ parsed # JUndef
       /\ diag = "none"
       /\ IF JSONparse(before.editedText).ok
            THEN parsed = JSONparse(before.editedText).v
            ELSE \E t \in {Trim(before.editedText)} :
                   IsTrimOf(t, before.editedText) /\ parsed = ClassOf(t)
  /\ (SaveRan /\ before.editedText = TextFortyTwo) => parsed = JInt(42)
  /\ (SaveRan /\ before.editedText = TextTrue) => parsed = JBool(TRUE)
  /\ (SaveRan /\ before.editedText = TextNull) => parsed = JNull
  /\ (SaveRan /\ before.editedText = TextWord) => parsed = JStr(TextWord)

\* a save of the text 01 after a form feed: not JSON, a number once trimmed
C5_Witness ==
  /\ SaveRan
  /\ before.editedText = <<"\f", "0", "1">>
  /\ ~JSONparse(before.editedText).ok
  /\ parsed = JInt(1)

\* C6: an open of the dialog, or a switch of the selected node to a node
\* of another identity while the dialog is open, leaves the session not
\* editing with an empty buffer, whatever it was, and the document as it
\* was.
C6_ForcedReset ==
  (\/ event = "open"
   \/ /\ event = "select"
      /\ before.opened
      /\ NodeId(selectedNode) # NodeId(before.selectedNode)) =>
    /\ ~editing
    /\ editedText = <<>>
    /\ json = before.json
    /\ contents = before.contents

\* a switch of the selection while editing a text
C6_Witness ==
  /\ event = "select"
  /\ before.opened
  /\ before.editing
  /\ before.editedText # <<>>
  /\ NodeId(selectedNode) # NodeId(before.selectedNode)
  /\ ~editing
  /\ editedText = <<>>

\* C7: a save with a node selected whose patch succeeds ends not editing,
\* with an empty buffer and with the document being the patch of the
\* document it read; and a save ends not editing in no other way.
C7_SaveSuccess ==
  /\ (SaveRan /\ PatchBefore.ok) =>
       /\ ~editing
       /\ editedText = <<>>
       /\ json = applyEdits(before.json, PatchBefore.edits)
  /\ (event = "save" /\ ~editing) =>
       /\ SaveRan
       /\ PatchBefore.ok
       /\ json = applyEdits(before.json, PatchBefore.edits)

\* a save that rewrote the document and left editing
C7_Witness ==
  /\ SaveRan
  /\ before.editing
  /\ ~editing
  /\ editedText = <<>>
  /\ json # before.json
  /\ json = applyEdits(before.json, PatchBefore.edits)

\* C8: start-edit, text-change and cancel leave the document, the
\* editor's contents and the selection as they were, so that after a
\* start-edit and any text-changes a cancel finds them as they were at the
\* start-edit; and a cancel leaves the session not editing, the buffer
\* empty.
C8_CancelDiscards ==
  /\ event \in {"edit", "change", "cancel"} =>
       /\ json = before.json
       /\ nodes = before.nodes
       /\ contents = before.contents
       /\ hasChanges = before.hasChanges
       /\ selectedNode = before.selectedNode
  /\ event = "cancel" => (before.editing /\ ~editing /\ editedText = <<>>)

\* a cancel after the text abc was typed
C8_Witness ==
  /\ event = "cancel"
  /\ before.editing
  /\ before.editedText = TextWord
  /\ ~editing
  /\ editedText = <<>>
  /\ json = before.json

\* the nodes of the current node set that are at the path, segment by
\* segment: a string segment and a number segment are never equal
NodesAt(path) == {n \in Range(nodes) : n.path = path}

\* C9: after a save that rewrote the document the node set is the one of
\* the new document; if it has a node at the path of the edit, a node at
\* that path is selected, whatever its rows now are; if it has none, the
\* selection is as it was; either way no warning is emitted and the
\* session is not editing.
C9_Reselect ==
  (SaveRan /\ PatchBefore.ok) =>
    /\ nodes = BuildNodes(json)
    /\ IF NodesAt(SavePath) # {}
         THEN selectedNode \in NodesAt(SavePath)
         ELSE selectedNode = before.selectedNode
    /\ diag = "none"
    /\ ~editing

\* a save after which the node at the path is selected with other rows
C9_Witness ==
  /\ SaveRan
  /\ ~editing
  /\ selectedNode \in NodesAt(SavePath)
  /\ selectedNode.text # before.selectedNode.text
  /\ selectedNode # before.selectedNode

\* C10: a save that starts with the editor's contents equal to the
\* document ends with them equal, whether it succeeds or fails, and a
\* successful save ends with the contents being the new document and the
\* dirty flag off; no event takes them from equal to different.
C10_Lockstep ==
  /\ before.contents = before.json => contents = json
  /\ (SaveRan /\ PatchBefore.ok) => (contents = json /\ ~hasChanges)

\* a save that rewrote the document and the contents with it
C10_Witness ==
  /\ SaveRan
  /\ before.contents = before.json
  /\ before.hasChanges
  /\ json # before.json
  /\ contents = json
  /\ ~hasChanges

\* the save found no value at the path: the document is not JSON, or the
\* path leaves it at a key that is missing, at a null, at a scalar or at an
\* index past the end
NothingFound == SaveRan /\ ExistingBefore = JUndef

\* C11: when the traversal along the path finds no existing value, the
\* resolver raises nothing to the save handler (the handler goes on to
\* compute the edits, and warns only if that throws) and the value to write
\* is the candidate, unmodified.
C11_NeverRaises ==
  NothingFound =>
    /\ parsed = EditParser(before.editedText)
    /\ valueToWrite = parsed
    /\ diag = "warn" => ~modify(before.json, SavePath, parsed, tabSize).ok
    /\ diag = "none" => json = applyEdits(before.json,
                                          modify(before.json, SavePath, parsed,
                                                 tabSize).edits)

\* a save of an object at a path that runs into a null of the document
C11_Witness ==
  /\ NothingFound
  /\ DocBefore.ok
  /\ before.json = DocPretty
  /\ SavePath = <<Key(<<"v">>), Idx(0), Key(<<"w">>)>>
  /\ parsed.t = "obj"
  /\ valueToWrite = parsed

StartedEdit == event = "edit"

\* the rows of the node the edit started on
EditedRows ==
  IF before.selectedNode = NoNode THEN <<>> ELSE before.selectedNode.text

IsContainerRow(row) == row.type \in {"array", "object"}

\* the rows that have a key and are typed neither array nor object
KeptRows(rows) == SelectSeq(rows, LAMBDA row : row.hasKey /\ ~IsContainerRow(row))

\* the object of the rows in row order: a key that occurs again takes the
\* later value at the place of the first
RECURSIVE ObjectOfRows(_, _)
ObjectOfRows(rows, kv) ==
  IF rows = <<>> THEN kv
  ELSE ObjectOfRows(Tail(rows),
         IF \E i \in 1..Len(kv) : kv[i].k = rows[1].key
           THEN [i \in 1..Len(kv) |->
                   IF kv[i].k = rows[1].key
                     THEN [k |-> kv[i].k, v |-> rows[1].value] ELSE kv[i]]
           ELSE Append(kv, [k |-> rows[1].key, v |-> rows[1].value]))

\* a value as raw text: a string without its quotes
RawText(v) == IF v.t = "str" THEN v.s ELSE JSONstringify(v)

\* the keys of the edit buffer read as an object
BufferKeys ==
  IF JSONparse(editedText).ok /\ JSONparse(editedText).v.t = "obj"
    THEN {JSONparse(editedText).v.kv[i].k :
            i \in 1..Len(JSONparse(editedText).v.kv)}
    ELSE {}

\* C12: start-edit puts normalize(rows) of the selected node in the edit
\* buffer: {} for no rows; the value as raw unquoted text for a single row
\* with no key; in every other case the 2-space pretty-printed object built
\* in row order from exactly the rows that have a key and are typed neither
\* array nor object.  The output never contains a key whose row is typed
\* array or object.
C12_NormalizerRules ==
  StartedEdit =>
    /\ editing
    /\ EditedRows = <<>> => editedText = <<"{", "}">>
    /\ /\ Len(EditedRows) = 1
       /\ ~EditedRows[1].hasKey
       /\ EditedRows[1].value # JUndef
       => editedText = RawText(EditedRows[1].value)
    /\ /\ EditedRows # <<>>
       /\ ~(Len(EditedRows) = 1 /\ ~EditedRows[1].hasKey)
       => editedText = Stringify(JObj(ObjectOfRows(KeptRows(EditedRows), <<>>)), 2, 0)
    /\ \A k \in BufferKeys :
         \E i \in 1..Len(EditedRows) :
           /\ EditedRows[i].hasKey
           /\ EditedRows[i].key = k
           /\ ~IsContainerRow(EditedRows[i])

\* C13: at most one save is in flight.  From a save's read of the document
\* to the end of its write-and-reconcile sequence no other event starts,
\* neither a second save nor any other: the only step taken is that save's
\* own return.  So the text a save has read is the document current when it
\* writes, and the text it writes is the patch of that document, a former
\* save's result included.
C13_OneSaveInFlight ==
  /\ [][pc = "saving" => pc' = "idle" /\ event' = "save"]_vars
  /\ [](pc = "saving" => jsonRead = json)
  /\ [](SaveRan /\ diag = "none" =>
         json = applyEdits(before.json, PatchBefore.edits))

\* a second save has returned: it patched the text the first one wrote
C13_Witness ==
  /\ pc = "idle"
  /\ SaveRan
  /\ diag = "none"
  /\ saves = 2
  /\ before.json \notin Docs
  /\ json # before.json
  /\ json = applyEdits(before.json, PatchBefore.edits)

\* C14: in every reachable state the edit buffer is empty when the session
\* is not editing.  Editing begins only at a start-edit and has ended, with
\* the buffer empty, after a successful save, a cancel, an open and a switch
\* of the selection, so the buffer is non-empty only in between; and a
\* text-change occurs only while editing.
C14_BufferLifetime ==
  /\ ~editing => editedText = <<>>
  /\ (editing /\ ~before.editing) => event = "edit"
  /\ (\/ event \in {"cancel", "open"}
      \/ SaveRan /\ PatchBefore.ok
      \/ /\ event = "select"
         /\ before.opened
         /\ NodeId(selectedNode) # NodeId(before.selectedNode)) =>
       ~editing /\ editedText = <<>>
  /\ event = "change" => before.editing /\ editing

\* the dialog closed on a text being edited: the buffer is emptied
C14_Witness ==
  /\ event = "close"
  /\ before.editing
  /\ before.editedText # <<>>
  /\ ~editing
  /\ editedText = <<>>

\* the save of a text left as the start-edit wrote it, on a node of the
\* document's own node set, the document being JSON
SavedUntyped ==
  /\ SaveRan
  /\ DocBefore.ok
  /\ before.selectedNode \in Range(BuildNodes(before.json))
  /\ before.editedText = normalizeNodeData(before.selectedNode.text)

\* C15: a start-edit followed at once by a save, on a parseable document
\* and a node whose rows are derived from the value at its path, yields a
\* document that parses to the same value as before, the value at the
\* node's path keeping its JSON type.
C15_UnmodifiedEdit ==
  SavedUntyped =>
    /\ diag = "none"
    /\ DocAfter.ok
    /\ DocAfter.v = DocBefore.v

\* C16: a save fired with no node selected changes nothing: the document
\* text, the editor's contents and dirty flag, the selection, the node set,
\* the editing flag and the edit buffer are as they were, no diagnostic is
\* emitted, and the session, still editing, can be left by a cancel.
C16_SaveUnselected ==
  (event = "save" /\ before.selectedNode = NoNode) =>
    /\ json = before.json
    /\ contents = before.contents
    /\ hasChanges = before.hasChanges
    /\ selectedNode = NoNode
    /\ nodes = before.nodes
    /\ before.editing
    /\ editing
    /\ editedText = before.editedText
    /\ opened
    /\ diag = "none"
    /\ ENABLED handleCancel

\* a save pressed on a typed text with nothing selected
C16_Witness ==
  /\ event = "save"
  /\ before.selectedNode = NoNode
  /\ selectedNode = NoNode
  /\ editing
  /\ editedText = TextAge
  /\ diag = "none"

=============================================================================
